---- MODULE Spec2Model ----
(***************************************************************************)
(* Model of gym_taxifuel/envs/taxifuel_env.py: the taxi-with-fuel MDP.     *)
(* The transition table P and the initial-state distribution are built by  *)
(* the nested loops of TaxiFuelEnv.__init__; encode/decode pack and unpack *)
(* the structured state; the host driver (DiscreteEnv) samples a start     *)
(* state and advances one table lookup at a time.                          *)
(***************************************************************************)
EXTENDS Integers, Sequences, FiniteSets, TLC

(***************************************************************************)
(* The grid and the constants of __init__.                                 *)
(***************************************************************************)
MAP ==
  << << "+", "-", "-", "-", "-", "-", "-", "-", "-", "-", "+" >>,
     << "|", "R", ":", " ", "|", "F", ":", " ", ":", "G", "|" >>,
     << "|", " ", ":", " ", "|", " ", ":", " ", ":", " ", "|" >>,
     << "|", " ", ":", " ", ":", " ", ":", " ", ":", " ", "|" >>,
     << "|", " ", "|", " ", ":", " ", "|", " ", ":", " ", "|" >>,
     << "|", "Y", "|", " ", ":", " ", "|", "B", ":", " ", "|" >>,
     << "+", "-", "-", "-", "-", "-", "-", "-", "-", "-", "+" >> >>

\* self.desc[i, j] with Python's 0-based indices
desc(i, j) == MAP[i + 1][j + 1]

\* self.locs; Python's locs[k] is locs[k + 1] here
locs == << <<0, 0>>, <<0, 4>>, <<4, 0>>, <<4, 3>> >>

fuel_station == <<0, 2>>

num_states == 5500

num_rows == 5

num_columns == 5

max_fuel == 10

max_row == num_rows - 1

max_col == num_columns - 1

num_actions == 7

\* len(locs)
num_locs == Len(locs)

Min(a, b) == IF a < b THEN a ELSE b

Max(a, b) == IF a > b THEN a ELSE b

(***************************************************************************)
(* StateCodec.                                                             *)
(***************************************************************************)
\* encode with the passenger packed in radix 4, the radix of the destination
encode_passenger_radix(taxi_row, taxi_col, pass_loc, dest_idx, fuel) ==
  (((taxi_row * 5 + taxi_col) * 4 + pass_loc) * 4 + dest_idx) * 11 + fuel

encode(taxi_row, taxi_col, pass_loc, dest_idx, fuel) ==
  LET i1 == taxi_row
      i2 == i1 * 5
      i3 == i2 + taxi_col
      i4 == i3 * 5
      i5 == i4 + pass_loc
      i6 == i5 * 4
      i7 == i6 + dest_idx
      i8 == i7 * 11
      i9 == i8 + fuel
  IN  i9

\* the list `out` of decode before it is reversed: fuel first, row last
decode_out(i) ==
  LET o1 == i % 11
      j1 == i \div 11
      o2 == j1 % 4
      j2 == j1 \div 4
      o3 == j2 % 5
      j3 == j2 \div 5
      o4 == j3 % 5
      j4 == j3 \div 5
  IN  << o1, o2, o3, o4, j4 >>

\* the assertion of decode: 0 <= i < 5 for the last quotient
decode_assert(i) == 0 <= decode_out(i)[5] /\ decode_out(i)[5] < 5

\* reversed(out)
reversed(out) == [k \in 1..Len(out) |-> out[Len(out) + 1 - k]]

\* decode returning `out` as built, without reversing it
decode_unreversed(i) == decode_out(i)

decode(i) == reversed(decode_out(i))

(***************************************************************************)
(* One pass of the loop body for (row, col, pass_idx, dest_idx, fuel) and  *)
(* one action.                                                             *)
(***************************************************************************)
\* taxi_loc in locs
in_locs(taxi_loc) == \E k \in 1..Len(locs) : locs[k] = taxi_loc

\* locs.index(taxi_loc): the first 0-based index holding taxi_loc
locs_index(taxi_loc) ==
  (CHOOSE k \in 1..Len(locs) :
      locs[k] = taxi_loc /\ \A j \in 1..(k - 1) : locs[j] # taxi_loc) - 1

\* the first chain marking the move south as moved at the last row too
move_rows_south_always_moved(row, action) ==
  IF action = 0
    THEN [new_row |-> Min(row + 1, max_row), moved |-> TRUE]
    ELSE IF action = 1
      THEN [new_row |-> Max(row - 1, 0), moved |-> (row # 0)]
      ELSE [new_row |-> row, moved |-> FALSE]

\* the first chain with the move north not marked as moved
move_rows_north_unmarked(row, action) ==
  IF action = 0
    THEN [new_row |-> Min(row + 1, max_row), moved |-> (row # max_row)]
    ELSE IF action = 1
      THEN [new_row |-> Max(row - 1, 0), moved |-> FALSE]
      ELSE [new_row |-> row, moved |-> FALSE]

\* the first if/elif chain: south and north
move_rows(row, action) ==
  IF action = 0
    THEN [new_row |-> Min(row + 1, max_row), moved |-> (row # max_row)]
    ELSE IF action = 1
      THEN [new_row |-> Max(row - 1, 0), moved |-> (row # 0)]
      ELSE [new_row |-> row, moved |-> FALSE]

\* the defaults set at the top of the loop body (moved as the first chain
\* left it)
defaults(col, pass_idx, fuel, moved0) ==
  [new_col |-> col, new_pass_idx |-> pass_idx, new_fuel |-> fuel,
   reward |-> -1, done |-> FALSE, moved |-> moved0]

\* action == 2 and no wall to the east
east(col, dflt) ==
  [dflt EXCEPT !.new_col = Min(col + 1, max_col),
               !.moved = IF col # max_col THEN TRUE ELSE @]

\* action == 3 and no wall to the west
west(col, dflt) ==
  [dflt EXCEPT !.new_col = Max(col - 1, 0),
               !.moved = IF col # 0 THEN TRUE ELSE @]

\* pickup putting the passenger at index len(locs) - 1 instead of 4
pickup_last_location(taxi_loc, pass_idx, dflt) ==
  IF pass_idx < 4 /\ taxi_loc = locs[pass_idx + 1]
    THEN [dflt EXCEPT !.new_pass_idx = 3]
    ELSE [dflt EXCEPT !.reward = -10]

\* action == 4
pickup(taxi_loc, pass_idx, dflt) ==
  IF pass_idx < 4 /\ taxi_loc = locs[pass_idx + 1]
    THEN [dflt EXCEPT !.new_pass_idx = 4]
    ELSE [dflt EXCEPT !.reward = -10]

\* dropoff at the destination without done = True
dropoff_never_done(taxi_loc, pass_idx, dest_idx, dflt) ==
  IF taxi_loc = locs[dest_idx + 1] /\ pass_idx = 4
    THEN [dflt EXCEPT !.new_pass_idx = dest_idx,
                      !.reward = 20]
  ELSE IF in_locs(taxi_loc) /\ pass_idx = 4
    THEN [dflt EXCEPT !.new_pass_idx = locs_index(taxi_loc)]
    ELSE [dflt EXCEPT !.reward = -10]

\* dropoff away from the destination treated as illegal
dropoff_only_at_destination(taxi_loc, pass_idx, dest_idx, dflt) ==
  IF taxi_loc = locs[dest_idx + 1] /\ pass_idx = 4
    THEN [dflt EXCEPT !.new_pass_idx = dest_idx,
                      !.done = TRUE,
                      !.reward = 20]
    ELSE [dflt EXCEPT !.reward = -10]

\* dropoff ending the episode at whichever named location the passenger
\* leaves the taxi
dropoff_always_done(taxi_loc, pass_idx, dest_idx, dflt) ==
  IF taxi_loc = locs[dest_idx + 1] /\ pass_idx = 4
    THEN [dflt EXCEPT !.new_pass_idx = dest_idx,
                      !.done = TRUE,
                      !.reward = 20]
  ELSE IF in_locs(taxi_loc) /\ pass_idx = 4
    THEN [dflt EXCEPT !.new_pass_idx = locs_index(taxi_loc),
                      !.done = TRUE]
    ELSE [dflt EXCEPT !.reward = -10]

\* dropoff at the destination leaving the passenger in the taxi
dropoff_keeps_passenger(taxi_loc, pass_idx, dest_idx, dflt) ==
  IF taxi_loc = locs[dest_idx + 1] /\ pass_idx = 4
    THEN [dflt EXCEPT !.done = TRUE,
                      !.reward = 20]
  ELSE IF in_locs(taxi_loc) /\ pass_idx = 4
    THEN [dflt EXCEPT !.new_pass_idx = locs_index(taxi_loc)]
    ELSE [dflt EXCEPT !.reward = -10]

\* action == 5
dropoff(taxi_loc, pass_idx, dest_idx, dflt) ==
  IF taxi_loc = locs[dest_idx + 1] /\ pass_idx = 4
    THEN [dflt EXCEPT !.new_pass_idx = dest_idx,
                      !.done = TRUE,
                      !.reward = 20]
  ELSE IF in_locs(taxi_loc) /\ pass_idx = 4
    THEN [dflt EXCEPT !.new_pass_idx = locs_index(taxi_loc)]
    ELSE [dflt EXCEPT !.reward = -10]

\* refill away from the station without the penalty
refill_no_penalty(taxi_loc, dflt) ==
  IF taxi_loc = fuel_station
    THEN [dflt EXCEPT !.new_fuel = 10]
    ELSE dflt

\* refill that fills the tank to half of max_fuel
refill_half_tank(taxi_loc, dflt) ==
  IF taxi_loc = fuel_station
    THEN [dflt EXCEPT !.new_fuel = 5]
    ELSE [dflt EXCEPT !.reward = -10]

\* refill looking for the station at (col, row)
refill_swapped_cell(taxi_loc, dflt) ==
  IF << taxi_loc[2], taxi_loc[1] >> = fuel_station
    THEN [dflt EXCEPT !.new_fuel = 10]
    ELSE [dflt EXCEPT !.reward = -10]

\* action == 6
refill(taxi_loc, dflt) ==
  IF taxi_loc = fuel_station
    THEN [dflt EXCEPT !.new_fuel = 10]
    ELSE [dflt EXCEPT !.reward = -10]

\* the second chain with the west branch testing the wall to the east
second_chain_west_tests_east_wall(row, col, pass_idx, dest_idx, fuel, action, moved0) ==
  LET taxi_loc == <<row, col>>
      dflt == defaults(col, pass_idx, fuel, moved0)
  IN  IF action = 2 /\ desc(1 + row, 2 * col + 2) = ":"
        THEN east(col, dflt)
      ELSE IF action = 3 /\ desc(1 + row, 2 * col + 2) = ":"
        THEN west(col, dflt)
      ELSE IF action = 4
        THEN pickup(taxi_loc, pass_idx, dflt)
      ELSE IF action = 5
        THEN dropoff(taxi_loc, pass_idx, dest_idx, dflt)
      ELSE IF action = 6
        THEN refill(taxi_loc, dflt)
      ELSE dflt

\* the second if/elif chain: east, west, pickup, dropoff, refill
second_chain(row, col, pass_idx, dest_idx, fuel, action, moved0) ==
  LET taxi_loc == <<row, col>>
      dflt == defaults(col, pass_idx, fuel, moved0)
  IN  IF action = 2 /\ desc(1 + row, 2 * col + 2) = ":"
        THEN east(col, dflt)
      ELSE IF action = 3 /\ desc(1 + row, 2 * col) = ":"
        THEN west(col, dflt)
      ELSE IF action = 4
        THEN pickup(taxi_loc, pass_idx, dflt)
      ELSE IF action = 5
        THEN dropoff(taxi_loc, pass_idx, dest_idx, dflt)
      ELSE IF action = 6
        THEN refill(taxi_loc, dflt)
      ELSE dflt

\* the empty-fuel penalty added to the reward instead of replacing it
consume_fuel_added_penalty(fuel, c) ==
  IF c.moved
    THEN [c EXCEPT !.reward = IF fuel = 0 THEN c.reward - 10 ELSE c.reward,
                   !.new_fuel = Max(0, fuel - 1)]
    ELSE c

\* the fuel consumption without the floor at 0
consume_fuel_unclamped(fuel, c) ==
  IF c.moved
    THEN [c EXCEPT !.reward = IF fuel = 0 THEN -10 ELSE c.reward,
                   !.new_fuel = fuel - 1]
    ELSE c

\* the empty-fuel penalty without the fuel consumption
consume_fuel_no_decrement(fuel, c) ==
  IF c.moved
    THEN [c EXCEPT !.reward = IF fuel = 0 THEN -10 ELSE c.reward]
    ELSE c

\* the fuel consumption without the empty-fuel penalty
consume_fuel_no_penalty(fuel, c) ==
  IF c.moved
    THEN [c EXCEPT !.new_fuel = Max(0, fuel - 1)]
    ELSE c

\* if moved: the empty-fuel penalty and the fuel consumption
consume_fuel(fuel, c) ==
  IF c.moved
    THEN [c EXCEPT !.reward = IF fuel = 0 THEN -10 ELSE c.reward,
                   !.new_fuel = Max(0, fuel - 1)]
    ELSE c

\* the structured successor, reward and done flag of one (state, action)
body(row, col, pass_idx, dest_idx, fuel, action) ==
  LET m == move_rows(row, action)
      c == consume_fuel(fuel,
             second_chain(row, col, pass_idx, dest_idx, fuel, action, m.moved))
  IN  [new_row |-> m.new_row, new_col |-> c.new_col,
       new_pass_idx |-> c.new_pass_idx, new_fuel |-> c.new_fuel,
       reward |-> c.reward, done |-> c.done, moved |-> c.moved]

\* the tuple appended to P[state][action]: (1.0, new_state, reward, done)
outcome(row, col, pass_idx, dest_idx, fuel, action) ==
  LET b == body(row, col, pass_idx, dest_idx, fuel, action)
  IN  << 1, encode(b.new_row, b.new_col, b.new_pass_idx, dest_idx, b.new_fuel),
         b.reward, b.done >>

(***************************************************************************)
(* The construction loops of __init__, outermost first in the source and   *)
(* innermost first here.  The accumulator holds the table P and the        *)
(* un-normalised initial_state_distrib.                                    *)
(***************************************************************************)
\* P = {state: {action: []}} and initial_state_distrib = np.zeros(num_states)
empty_tables ==
  [P   |-> [state \in 0..(num_states - 1) |->
              [action \in 0..(num_actions - 1) |-> << >>]],
   isd |-> [state \in 0..(num_states - 1) |-> 0]]

\* TLC hands an operator its arguments unevaluated, and would evaluate the
\* accumulator of a loop anew at every use: with_value evaluates v once, as
\* the assignment in the loop does, and hands the value to the rest F.
with_value(v, F(_)) == CHOOSE r \in { F(x) : x \in {v} } : TRUE

RECURSIVE for_action(_, _, _, _, _, _, _)
for_action(acc, row, col, pass_idx, dest_idx, fuel, action) ==
  IF action >= num_actions
    THEN acc
    ELSE LET state == encode(row, col, pass_idx, dest_idx, fuel)
             o     == outcome(row, col, pass_idx, dest_idx, fuel, action)
         IN  with_value([acc EXCEPT !.P[state][action] = Append(@, o)],
               LAMBDA acc1 : for_action(acc1, row, col, pass_idx, dest_idx,
                                        fuel, action + 1))

\* initial weight also where the passenger waits at the destination
is_initial_any_destination(pass_idx, dest_idx, fuel) ==
  pass_idx < 4 /\ fuel = max_fuel

\* the states that receive initial weight
is_initial(pass_idx, dest_idx, fuel) ==
  pass_idx < 4 /\ pass_idx # dest_idx /\ fuel = max_fuel

\* if ...: initial_state_distrib[state] += 1
add_initial(acc, row, col, pass_idx, dest_idx, fuel) ==
  IF is_initial(pass_idx, dest_idx, fuel)
    THEN [acc EXCEPT
            !.isd[encode(row, col, pass_idx, dest_idx, fuel)] = @ + 1]
    ELSE acc

\* the fuel loop over range(max_fuel), without the + 1 for the full tank
RECURSIVE for_fuel_short(_, _, _, _, _, _)
for_fuel_short(acc, row, col, pass_idx, dest_idx, fuel) ==
  IF fuel >= max_fuel
    THEN acc
    ELSE with_value(
           for_action(add_initial(acc, row, col, pass_idx, dest_idx, fuel),
                      row, col, pass_idx, dest_idx, fuel, 0),
           LAMBDA acc1 : for_fuel_short(acc1, row, col, pass_idx, dest_idx,
                                        fuel + 1))

RECURSIVE for_fuel(_, _, _, _, _, _)
for_fuel(acc, row, col, pass_idx, dest_idx, fuel) ==
  IF fuel >= max_fuel + 1
    THEN acc
    ELSE with_value(
           for_action(add_initial(acc, row, col, pass_idx, dest_idx, fuel),
                      row, col, pass_idx, dest_idx, fuel, 0),
           LAMBDA acc1 : for_fuel(acc1, row, col, pass_idx, dest_idx, fuel + 1))

RECURSIVE for_dest_idx(_, _, _, _, _)
for_dest_idx(acc, row, col, pass_idx, dest_idx) ==
  IF dest_idx >= num_locs
    THEN acc
    ELSE with_value(
           for_fuel(acc, row, col, pass_idx, dest_idx, 0),
           LAMBDA acc1 : for_dest_idx(acc1, row, col, pass_idx, dest_idx + 1))

RECURSIVE for_pass_idx(_, _, _, _)
for_pass_idx(acc, row, col, pass_idx) ==
  IF pass_idx >= num_locs + 1
    THEN acc
    ELSE with_value(
           for_dest_idx(acc, row, col, pass_idx, 0),
           LAMBDA acc1 : for_pass_idx(acc1, row, col, pass_idx + 1))

RECURSIVE for_col(_, _, _)
for_col(acc, row, col) ==
  IF col >= num_columns
    THEN acc
    ELSE with_value(
           for_pass_idx(acc, row, col, 0),
           LAMBDA acc1 : for_col(acc1, row, col + 1))

RECURSIVE for_row(_, _)
for_row(acc, row) ==
  IF row >= num_rows
    THEN acc
    ELSE with_value(
           for_col(acc, row, 0),
           LAMBDA acc1 : for_row(acc1, row + 1))

\* the tables when the loops have run
built == for_row(empty_tables, 0)

\* the transition table handed to the driver
P == built.P

\* initial_state_distrib.sum(), summed by halves
RECURSIVE sum_range(_, _, _)
sum_range(f, lo, hi) ==
  IF lo > hi THEN 0
  ELSE IF lo = hi THEN f[lo]
  ELSE LET mid == (lo + hi) \div 2
       IN  sum_range(f, lo, mid) + sum_range(f, mid + 1, hi)

isd_sum == sum_range(built.isd, 0, num_states - 1)

\* initial_state_distrib /= sum: the weight of a state as the exact
\* fraction <<numerator, denominator>>
initial_state_distrib(state) == << built.isd[state], isd_sum >>

(***************************************************************************)
(* State.                                                                  *)
(*   s, lastaction      the driver's current packed state and last action  *)
(*   prev, lastreward,  the state the last step left, and the reward and   *)
(*   lastdone           done flag it returned                              *)
(*   c_calls            the codec calls made on the argument so far        *)
(*   c_arg_state,       the argument: a structured state or an index       *)
(*   c_arg_index                                                           *)
(*   c_state, c_index   what decode and encode returned last               *)
(* History, observed on the driver's steps:                                *)
(*   episode_done       a step has returned done = true since the start or *)
(*                      the last reset                                     *)
(*   since_refill       the position-changing moves of reward -1 since the *)
(*                      last refill on the fuel station (None before one)  *)
(***************************************************************************)
VARIABLES s, lastaction, prev, lastreward, lastdone,
          c_calls, c_arg_state, c_arg_index, c_state, c_index,
          episode_done, since_refill

driver_vars == << s, lastaction, prev, lastreward, lastdone,
                  episode_done, since_refill >>

codec_vars == << c_calls, c_arg_state, c_arg_index, c_state, c_index >>

vars == << s, lastaction, prev, lastreward, lastdone,
           c_calls, c_arg_state, c_arg_index, c_state, c_index,
           episode_done, since_refill >>

\* Python's None, for an index or an action that is not there
None == -1

\* no structured state
NoState == << >>

\* the structured states the loops enumerate
States ==
  { <<row, col, pass_idx, dest_idx, fuel>> :
      row \in 0..(num_rows - 1), col \in 0..(num_columns - 1),
      pass_idx \in 0..num_locs, dest_idx \in 0..(num_locs - 1),
      fuel \in 0..max_fuel }

Actions == 0..(num_actions - 1)

(***************************************************************************)
(* The host driver: reset samples a state of non-zero initial weight, step *)
(* samples one of the outcomes of P[s][a] of non-zero probability.         *)
(***************************************************************************)
\* no step observed yet
history_start ==
  /\ episode_done = FALSE
  /\ since_refill = None

\* the count of paid moves after the step from `state` by action a to
\* `next` with reward r: 0 after a refill on the fuel station, one more
\* (up to max_fuel + 1, which stands for any larger count) after a
\* position-changing move of reward -1
count_since_refill(count, state, a, next, r) ==
  LET from == decode(state)
      to   == decode(next)
  IN  IF a = 6 /\ << from[1], from[2] >> = fuel_station
        THEN 0
      ELSE IF /\ count # None
              /\ a \in 0..3
              /\ << to[1], to[2] >> # << from[1], from[2] >>
              /\ r = -1
        THEN Min(count + 1, max_fuel + 1)
      ELSE count

driver_idle ==
  /\ s = 0
  /\ lastaction = None
  /\ prev = None
  /\ lastreward = 0
  /\ lastdone = FALSE
  /\ history_start

codec_idle ==
  /\ c_calls = << >>
  /\ c_arg_state = NoState
  /\ c_arg_index = None
  /\ c_state = NoState
  /\ c_index = None

\* reset, called by the episode loop when the last step returned done
reset ==
  /\ lastdone
  /\ s' \in { i \in 0..(num_states - 1) : initial_state_distrib(i)[1] > 0 }
  /\ lastaction' = None
  /\ prev' = None
  /\ lastreward' = 0
  /\ lastdone' = FALSE
  /\ episode_done' = FALSE
  /\ since_refill' = None
  /\ UNCHANGED codec_vars

step(a) ==
  LET transitions == P[s][a]
  IN  \E i \in 1..Len(transitions) :
        /\ transitions[i][1] > 0
        /\ s' = transitions[i][2]
        /\ lastreward' = transitions[i][3]
        /\ lastdone' = transitions[i][4]
        /\ lastaction' = a
        /\ prev' = s
        /\ episode_done' = (episode_done \/ transitions[i][4])
        /\ since_refill' = count_since_refill(since_refill, s, a,
                                               transitions[i][2],
                                               transitions[i][3])
        /\ UNCHANGED codec_vars

Step == \E a \in Actions : step(a)

Reset == reset

\* the environment as constructed and reset
Init ==
  /\ s \in { i \in 0..(num_states - 1) : initial_state_distrib(i)[1] > 0 }
  /\ lastaction = None
  /\ prev = None
  /\ lastreward = 0
  /\ lastdone = FALSE
  /\ history_start
  /\ codec_idle

Next == Step \/ Reset

Spec == Init /\ [][Next]_vars

(***************************************************************************)
(* The table looked up from every state of the observation space.          *)
(***************************************************************************)
InitTable ==
  /\ s \in 0..(num_states - 1)
  /\ lastaction = None
  /\ prev = None
  /\ lastreward = 0
  /\ lastdone = FALSE
  /\ history_start
  /\ codec_idle

NextTable == Step

SpecTable == InitTable /\ [][NextTable]_vars

(***************************************************************************)
(* The codec called on every structured state and on every index, and then *)
(* the other way on what it returned.                                      *)
(***************************************************************************)
InitCodec ==
  /\ driver_idle
  /\ c_calls = << >>
  /\ c_state = NoState
  /\ c_index = None
  /\ \/ c_arg_state \in States /\ c_arg_index = None
     \/ c_arg_state = NoState /\ c_arg_index \in 0..(num_states - 1)

Encode ==
  /\ \/ c_calls = << >> /\ c_arg_state # NoState
        /\ c_index' = encode(c_arg_state[1], c_arg_state[2], c_arg_state[3],
                             c_arg_state[4], c_arg_state[5])
     \/ c_calls = << "decode" >>
        /\ c_index' = encode(c_state[1], c_state[2], c_state[3],
                             c_state[4], c_state[5])
  /\ c_calls' = Append(c_calls, "encode")
  /\ UNCHANGED << c_arg_state, c_arg_index, c_state, driver_vars >>

Decode ==
  /\ \/ c_calls = << >> /\ c_arg_index # None
        /\ decode_assert(c_arg_index)
        /\ c_state' = decode(c_arg_index)
     \/ c_calls = << "encode" >>
        /\ decode_assert(c_index)
        /\ c_state' = decode(c_index)
  /\ c_calls' = Append(c_calls, "decode")
  /\ UNCHANGED << c_arg_state, c_arg_index, c_index, driver_vars >>

NextCodec == Encode \/ Decode

SpecCodec == InitCodec /\ [][NextCodec]_vars

(***************************************************************************)
(* Properties of the codec, under SpecCodec.                               *)
(***************************************************************************)
\* C1: encode and decode are mutual inverses: decoding the index encode
\* returned for a valid structured state gives back its components in the
\* order (row, col, passenger, destination, fuel), and encoding what decode
\* returned for an index in 0..5499 gives back the index.
C1_RoundTrip ==
  /\ c_calls = << "encode", "decode" >> =>
       /\ Len(c_state) = 5
       /\ c_state[1] = c_arg_state[1]
       /\ c_state[2] = c_arg_state[2]
       /\ c_state[3] = c_arg_state[3]
       /\ c_state[4] = c_arg_state[4]
       /\ c_state[5] = c_arg_state[5]
  /\ c_calls = << "decode", "encode" >> => c_index = c_arg_index
  /\ (c_calls = << >> /\ c_arg_index # None) => ENABLED Decode

\* the round trip from a structured state has run to its end
C1_Witness ==
  /\ c_calls = << "encode", "decode" >>
  /\ c_arg_state = << 3, 2, 4, 1, 7 >>
  /\ c_index = 3934
  /\ c_state = << 3, 2, 4, 1, 7 >>

\* lexicographic order of (row, col, passenger, destination, fuel)
LexLess(t, u) ==
  \E k \in 1..5 : t[k] < u[k] /\ \A j \in 1..(k - 1) : t[j] = u[j]

\* C2: for every valid structured state encode returns
\* (((row*5+col)*5+passenger)*4+destination)*11+fuel, a value in 0..5499;
\* encode is strictly order-preserving for the lexicographic order of the
\* components; and every index in 0..5499 is the image of exactly one valid
\* state.
C2_EncodeBijection ==
  /\ (c_calls = << "encode" >> /\ c_arg_state # NoState) =>
       /\ c_index = (((c_arg_state[1] * 5 + c_arg_state[2]) * 5
                       + c_arg_state[3]) * 4 + c_arg_state[4]) * 11
                    + c_arg_state[5]
       /\ c_index \in 0..5499
       /\ \A u \in States :
            LexLess(c_arg_state, u) =>
              c_index < encode(u[1], u[2], u[3], u[4], u[5])
  /\ (c_calls = << >> /\ c_arg_index # None) =>
       Cardinality({ u \in States :
                       encode(u[1], u[2], u[3], u[4], u[5]) = c_arg_index }) = 1

\* encode has run on a state in the middle of the order
C2_Witness ==
  /\ c_calls = << "encode" >>
  /\ c_arg_state = << 2, 4, 0, 3, 10 >>
  /\ c_index = 3123

(***************************************************************************)
(* Properties of the transition table, under SpecTable: every state index  *)
(* is an initial state there and every entry of the table is stepped       *)
(* through once.                                                           *)
(***************************************************************************)
\* a step has been taken: prev, lastaction, lastreward, lastdone and s are
\* one entry of the table
Stepped == lastaction # None

\* the structured state the last step left, and the one it entered
From == decode(prev)

To == decode(s)

\* the taxi's cell in a structured state
Cell(t) == << t[1], t[2] >>

\* every state has its seven actions and no others
TableDomain ==
  /\ DOMAIN P = 0..5499
  /\ \A state \in DOMAIN P : DOMAIN P[state] = 0..6

\* C3: after construction the transition table is complete and
\* deterministic: for every state index in 0..5499 and every action in 0..6
\* it holds exactly one outcome, of probability 1.0 and with a next-state
\* index in 0..5499.
C3_TableComplete ==
  /\ TableDomain
  /\ s \in 0..5499
  /\ \A a \in 0..6 :
       /\ Len(P[s][a]) = 1
       /\ P[s][a][1][1] = 1
       /\ P[s][a][1][2] \in 0..5499

\* the last state of the enumeration has been looked up
C3_Witness ==
  /\ prev = 5499
  /\ lastaction = 3
  /\ s = 5278
  /\ Len(P[prev][lastaction]) = 1

\* C4: for every (state, action) entry of the table, done is true if and
\* only if the action is dropoff (5), the passenger is in the taxi
\* (passenger_location = 4) and the taxi is on the cell of the destination.
C4_DoneIffDelivery ==
  Stepped =>
    (lastdone <=> /\ lastaction = 5
                  /\ From[3] = 4
                  /\ Cell(From) = locs[From[4] + 1])

\* a delivery at B
C4_Witness ==
  /\ lastdone
  /\ lastaction = 5
  /\ From = << 4, 3, 4, 3, 5 >>

\* the state the table leads to from `state` along `actions`
RECURSIVE drive(_, _)
drive(state, actions) ==
  IF actions = << >> THEN state
  ELSE drive(P[state][Head(actions)][1][2], Tail(actions))

\* Scenario 2: from (0,0,4,1,10) south, south, four times east, north, north
Scenario2 == drive(encode(0, 0, 4, 1, 10), << 0, 0, 2, 2, 2, 2, 1, 1 >>)

\* C5: a dropoff (action 5) taken with the passenger in the taxi and the taxi
\* on the destination cell yields a successor whose passenger_location equals
\* destination, with reward +20 and done = true, while taxi position,
\* destination and fuel are unchanged; in particular after driving from
\* (0,0,4,1,10) to cell (0,4).
C5_DropoffAtDestination ==
  /\ (/\ Stepped
      /\ lastaction = 5
      /\ From[3] = 4
      /\ Cell(From) = locs[From[4] + 1]) =>
       /\ To[3] = From[4]
       /\ lastreward = 20
       /\ lastdone = TRUE
       /\ Cell(To) = Cell(From)
       /\ To[4] = From[4]
       /\ To[5] = From[5]
  /\ (Stepped /\ lastaction = 5 /\ prev = Scenario2) =>
       /\ Cell(From) = << 0, 4 >>
       /\ To[3] = 1
       /\ lastreward = 20
       /\ lastdone = TRUE

\* the dropoff of Scenario 2, eight moves after the full tank
C5_Witness ==
  /\ lastaction = 5
  /\ prev = Scenario2
  /\ From = << 0, 4, 4, 1, 2 >>
  /\ To = << 0, 4, 1, 1, 2 >>

\* C6: every reward stored in the transition table, for every state and
\* action, is one of -10, -1 or 20.
C6_RewardBounds ==
  /\ \A a \in 0..6 : \A i \in 1..Len(P[s][a]) : P[s][a][i][3] \in {-10, -1, 20}
  /\ Stepped => lastreward \in {-10, -1, 20}

\* a move with an empty tank: the penalty overrides the default reward
C6_Witness ==
  /\ lastaction = 0
  /\ From = << 0, 0, 0, 0, 0 >>
  /\ lastreward = -10

\* the outcome the loop body computes for the entry the last step took
Taken == body(From[1], From[2], From[3], From[4], From[5], lastaction)

\* C8: fuel never leaves the range 0..10: for every state and action the
\* successor's fuel is in 0..10, so after any sequence of actions from any
\* state fuel is never negative and never above 10.
C8_FuelRange ==
  /\ To[5] \in 0..10
  /\ Stepped =>
       /\ Taken.new_fuel \in 0..10
       /\ To[5] = Taken.new_fuel
       /\ s = encode(Taken.new_row, Taken.new_col, Taken.new_pass_idx,
                     From[4], Taken.new_fuel)

\* a move with an empty tank leaves fuel at 0
C8_Witness ==
  /\ lastaction = 1
  /\ From = << 3, 1, 2, 0, 0 >>
  /\ To = << 2, 1, 2, 0, 0 >>

\* C9: every movement action (0-3) that changes the taxi's position from a
\* state with fuel > 0 produces a successor with fuel exactly one lower, with
\* reward -1 and done = false, and with passenger_location and destination
\* unchanged.
C9_MoveConsumesOne ==
  (/\ Stepped
   /\ lastaction \in 0..3
   /\ Cell(To) # Cell(From)
   /\ From[5] > 0) =>
     /\ To[5] = From[5] - 1
     /\ lastreward = -1
     /\ lastdone = FALSE
     /\ To[3] = From[3]
     /\ To[4] = From[4]

\* a move west with the last unit of fuel
C9_Witness ==
  /\ lastaction = 3
  /\ From = << 2, 2, 4, 1, 1 >>
  /\ To = << 2, 1, 4, 1, 0 >>

\* the move `action` is blocked in cell (row, col): south at the last row,
\* north at the first, east or west into a wall or the border of the grid
Blocked(row, col, action) ==
  \/ action = 0 /\ row = 4
  \/ action = 1 /\ row = 0
  \/ action = 2 /\ desc(1 + row, 2 * col + 2) = "|"
  \/ action = 3 /\ desc(1 + row, 2 * col) = "|"

\* the cell one step from (row, col) in the direction of `action`
Neighbour(row, col, action) ==
  IF action = 0 THEN << row + 1, col >>
  ELSE IF action = 1 THEN << row - 1, col >>
  ELSE IF action = 2 THEN << row, col + 1 >>
  ELSE << row, col - 1 >>

\* C10: a movement action (0-3) taken with fuel = 0 in a cell where the move
\* is not blocked still changes the taxi's position by one cell, leaves fuel
\* at 0, and has reward -10 (not -1) with done = false.
C10_EmptyTankMove ==
  (/\ Stepped
   /\ lastaction \in 0..3
   /\ From[5] = 0
   /\ ~Blocked(From[1], From[2], lastaction)) =>
     /\ Cell(To) = Neighbour(From[1], From[2], lastaction)
     /\ To[5] = 0
     /\ lastreward = -10
     /\ lastdone = FALSE
     /\ To[3] = From[3]
     /\ To[4] = From[4]

\* Scenario 3: south with an empty tank
C10_Witness ==
  /\ lastaction = 0
  /\ From = << 1, 2, 3, 0, 0 >>
  /\ To = << 2, 2, 3, 0, 0 >>
  /\ lastreward = -10

(***************************************************************************)
(* The initial-state distribution, under Spec.                             *)
(***************************************************************************)
\* fuel = 10, the passenger at a named location other than the destination
Eligible(t) == t[5] = 10 /\ t[3] < 4 /\ t[3] # t[4]

EligibleIndices == { i \in 0..5499 : Eligible(decode(i)) }

\* every eligible state has the same non-zero weight, one over the number of
\* eligible states, and every other state has weight zero
IsdUniform ==
  \A i \in 0..5499 :
    LET w == initial_state_distrib(i)
    IN  IF i \in EligibleIndices
          THEN w[1] > 0 /\ w[1] * Cardinality(EligibleIndices) = w[2]
          ELSE w[1] = 0 /\ w[2] > 0

\* the numerators of the weights add up to their common denominator
IsdSumsToOne ==
  /\ isd_sum > 0
  /\ sum_range([i \in 0..5499 |-> initial_state_distrib(i)[1]], 0, 5499)
       = isd_sum
  /\ \A i \in 0..5499 : initial_state_distrib(i)[2] = isd_sum

\* C7: the initial-state distribution gives equal non-zero weight to exactly
\* the states with fuel = 10, passenger_location < 4 and passenger_location
\* different from destination (for every taxi cell), gives zero weight to
\* every other state, and its weights sum to 1.
C7_InitialDistribution ==
  /\ IsdUniform
  /\ IsdSumsToOne
  /\ (lastaction = None) => Eligible(To)

\* a start state sampled from the distribution
C7_Witness ==
  /\ lastaction = None
  /\ To = << 2, 3, 1, 0, 10 >>
  /\ initial_state_distrib(s) = << 1, 300 >>

(***************************************************************************)
(* Further properties of the transition table, under SpecTable.            *)
(***************************************************************************)
\* C11: a movement action that is blocked (south at row 4, north at row 0,
\* east or west into a wall or the grid border) is a self-loop: the
\* successor equals the current state in every component including fuel,
\* the reward is -1 and done is false, whatever the fuel (0 included).
C11_BlockedMoveSelfLoop ==
  (/\ Stepped
   /\ lastaction \in 0..3
   /\ Blocked(From[1], From[2], lastaction)) =>
     /\ s = prev
     /\ To = From
     /\ lastreward = -1
     /\ lastdone = FALSE

\* Scenario 5 with an empty tank: west at the west border
C11_Witness ==
  /\ lastaction = 3
  /\ From = << 2, 0, 1, 3, 0 >>
  /\ To = << 2, 0, 1, 3, 0 >>
  /\ lastreward = -1

\* C12: a pickup (action 4) taken when passenger_location is a named
\* location k < 4 and the taxi is on the cell of location k yields a
\* successor with passenger_location = 4, reward -1 and done = false, with
\* taxi position, destination and fuel unchanged.
C12_Pickup ==
  (/\ Stepped
   /\ lastaction = 4
   /\ From[3] < 4
   /\ Cell(From) = locs[From[3] + 1]) =>
     /\ To[3] = 4
     /\ lastreward = -1
     /\ lastdone = FALSE
     /\ Cell(To) = Cell(From)
     /\ To[4] = From[4]
     /\ To[5] = From[5]

\* Scenario 1: pickup at R
C12_Witness ==
  /\ lastaction = 4
  /\ From = << 0, 0, 0, 1, 10 >>
  /\ To = << 0, 0, 4, 1, 10 >>

\* the last step was a pickup with the passenger already in the taxi or the
\* taxi not on the passenger's cell
IllegalPickup ==
  /\ lastaction = 4
  /\ IF From[3] = 4 THEN TRUE ELSE Cell(From) # locs[From[3] + 1]

\* the last step was a dropoff with the passenger not in the taxi, or the
\* taxi not on any named location
IllegalDropoff ==
  /\ lastaction = 5
  /\ (From[3] # 4 \/ Cell(From) \notin { locs[k] : k \in 1..4 })

\* the last step was a refill with the taxi not on the fuel station
IllegalRefill ==
  /\ lastaction = 6
  /\ Cell(From) # << 0, 2 >>

\* C13: every illegal pickup, illegal dropoff and illegal refill is a
\* self-loop with reward -10 and done = false: the successor equals the
\* current state in every component.
C13_IllegalActionSelfLoop ==
  (Stepped /\ (IllegalPickup \/ IllegalDropoff \/ IllegalRefill)) =>
     /\ s = prev
     /\ To = From
     /\ lastreward = -10
     /\ lastdone = FALSE

\* Scenario 4: refill away from the station
C13_Witness ==
  /\ lastaction = 6
  /\ From = << 3, 3, 4, 2, 7 >>
  /\ To = << 3, 3, 4, 2, 7 >>
  /\ lastreward = -10

\* C14: a refill (action 6) taken with the taxi on the fuel station cell
\* (0,2) yields a successor with fuel = 10 for every current fuel level
\* 0..10, with reward -1 and done = false, and with taxi position,
\* passenger_location and destination unchanged.
C14_Refill ==
  (/\ Stepped
   /\ lastaction = 6
   /\ Cell(From) = << 0, 2 >>) =>
     /\ To[5] = 10
     /\ lastreward = -1
     /\ lastdone = FALSE
     /\ Cell(To) = Cell(From)
     /\ To[3] = From[3]
     /\ To[4] = From[4]

\* a refill of an empty tank
C14_Witness ==
  /\ lastaction = 6
  /\ From = << 0, 2, 4, 3, 0 >>
  /\ To = << 0, 2, 4, 3, 10 >>

\* C15: a dropoff (action 5) taken with the passenger in the taxi and the
\* taxi on a named location that is not the destination sets
\* passenger_location to that location's index, with reward -1 and
\* done = false, and with taxi position, destination and fuel unchanged.
C15_DropoffElsewhere ==
  (/\ Stepped
   /\ lastaction = 5
   /\ From[3] = 4
   /\ Cell(From) \in { locs[k] : k \in 1..4 }
   /\ Cell(From) # locs[From[4] + 1]) =>
     /\ To[3] \in 0..3
     /\ locs[To[3] + 1] = Cell(From)
     /\ lastreward = -1
     /\ lastdone = FALSE
     /\ Cell(To) = Cell(From)
     /\ To[4] = From[4]
     /\ To[5] = From[5]

\* the passenger let out at Y on the way to G
C15_Witness ==
  /\ lastaction = 5
  /\ From = << 4, 0, 4, 1, 3 >>
  /\ To = << 4, 0, 2, 1, 3 >>

\* the last step was a dropoff that took the passenger from the taxi to a
\* named location
DroppedOff ==
  /\ Stepped
  /\ lastaction = 5
  /\ From[3] = 4
  /\ To[3] \in 0..3

C17_AtDestinationOnlyByDelivery ==
  /\ ~episode_done => To[3] # To[4]
  /\ (Stepped /\ From[3] # From[4] /\ To[3] = To[4]) =>
       /\ lastaction = 5
       /\ lastdone = TRUE
       /\ episode_done

\* the first delivery of an episode, at B with one unit of fuel left
C17_Witness ==
  /\ lastaction = 5
  /\ lastdone = TRUE
  /\ From = << 4, 3, 4, 3, 1 >>
  /\ To = << 4, 3, 3, 3, 1 >>
  /\ episode_done

\* the states of the initial distribution
InitialStates ==
  { i \in 0..(num_states - 1) : initial_state_distrib(i)[1] > 0 }

\* action a in state state is a position-changing move at fuel = 0
EmptyFuelMove(state, a) ==
  /\ a \in 0..3
  /\ decode(state)[5] = 0
  /\ Cell(decode(P[state][a][1][2])) # Cell(decode(state))

\* action a in state state is done = true, or leads into the set W
Towards(with_penalty, state, a, W) ==
  /\ with_penalty \/ ~EmptyFuelMove(state, a)
  /\ \/ P[state][a][1][4]
     \/ P[state][a][1][2] \in W

\* the states from which a finite action sequence ends with done = true: the
\* least set closed under Towards, by iteration from W
RECURSIVE Backward(_, _)
Backward(with_penalty, W) ==
  with_value({ state \in 0..(num_states - 1) :
                 \/ state \in W
                 \/ \E a \in Actions : Towards(with_penalty, state, a, W) },
             LAMBDA W1 : IF W1 = W THEN W ELSE Backward(with_penalty, W1))

\* ... by any sequence
Deliverable == Backward(TRUE, {})

\* ... by a sequence without a position-changing move at fuel = 0
PenaltyFreeDeliverable == Backward(FALSE, {})

\* the cell a movement action leads to, with fuel in the tank
MovedCell(cell, a) ==
  Cell(decode(P[encode(cell[1], cell[2], 4, 0, max_fuel)][a][1][2]))

\* the cells at most k moves away from the given cells
RECURSIVE Within(_, _)
Within(k, cells) ==
  IF k = 0
    THEN cells
    ELSE Within(k - 1, cells \cup { MovedCell(cell, a) : cell \in cells, a \in 0..3 })

\* the initial states with the passenger at R or Y, the destination G or B
\* and the taxi more than 4 moves from the passenger
Stranded ==
  { i \in InitialStates :
      /\ decode(i)[3] \in {0, 2}
      /\ decode(i)[4] \in {1, 3}
      /\ Cell(decode(i)) \notin Within(4, { locs[decode(i)[3] + 1] }) }

StrandedExactly ==
  /\ InitialStates \ PenaltyFreeDeliverable = Stranded
  /\ Cardinality(Stranded) = 62
  /\ Cardinality(InitialStates) = 300

\* C18 as stated: from every state of the initial distribution there is a
\* finite action sequence that ends with a done = true transition and in
\* which no transition has the empty-fuel penalty.
C18_PenaltyFreeDelivery ==
  lastaction = None => s \in PenaltyFreeDeliverable

\* C18, amended: from every state of the initial distribution (and every
\* state an episode reaches) there is a finite action sequence that ends with
\* a done = true transition; one without the empty-fuel penalty exists from
\* 238 of the 300 initial states, all but those with the passenger at R or Y,
\* the destination G or B and the taxi more than 4 moves from the passenger.
C18_Delivery ==
  /\ s \in Deliverable
  /\ lastaction = None => (s \in PenaltyFreeDeliverable <=> s \notin Stranded)
  /\ StrandedExactly

\* an episode starts on the fuel station with the passenger at Y bound for B:
\* 6 moves to Y, then 7 to B or 6 back to the station
C18_Witness ==
  /\ lastaction = None
  /\ s = encode(0, 2, 2, 3, 10)
  /\ s \in Stranded
  /\ s \in Deliverable
  /\ s \notin PenaltyFreeDeliverable

(***************************************************************************)
(* Fuel and movement along action sequences from any state, under          *)
(* SpecTable.                                                              *)
(***************************************************************************)
\* the last step was a refill taken on the fuel station cell
Refilled ==
  /\ Stepped
  /\ lastaction = 6
  /\ Cell(From) = fuel_station

\* C19: along any sequence of actions from any state, fuel increases in a
\* step only when that step is a refill (action 6) taken on the fuel station
\* cell; every other transition leaves fuel equal or lower by exactly 1, so
\* after a successful refill and before the next one at most 10
\* position-changing moves have reward -1 (as many as the tank has lost).
C19_FuelOnlyFromRefill ==
  /\ (Stepped /\ To[5] > From[5]) => Refilled
  /\ (Stepped /\ ~Refilled) => To[5] \in { From[5], From[5] - 1 }
  /\ since_refill # None =>
       /\ since_refill <= max_fuel
       /\ since_refill = max_fuel - To[5]

\* the tenth paid move after a refill empties the tank
C19_Witness ==
  /\ Stepped
  /\ lastaction \in 0..3
  /\ lastreward = -1
  /\ Cell(To) # Cell(From)
  /\ From[5] = 1
  /\ To[5] = 0
  /\ since_refill = 10

\* the opposite movement action
Opposite(a) ==
  CASE a = 0 -> 1
    [] a = 1 -> 0
    [] a = 2 -> 3
    [] a = 3 -> 2

Abs(n) == IF n < 0 THEN 0 - n ELSE n

\* C20: movement is reversible (walls are symmetric): whenever a step changes
\* the taxi's position from cell a to cell b, it is a movement action, the
\* opposite movement action taken in cell b moves the taxi back to cell a,
\* and b is adjacent to a in exactly one axis.
C20_MoveReversible ==
  (Stepped /\ Cell(To) # Cell(From)) =>
    /\ lastaction \in 0..3
    /\ Cell(decode(P[s][Opposite(lastaction)][1][2])) = Cell(From)
    /\ Abs(To[1] - From[1]) + Abs(To[2] - From[2]) = 1

\* west through the gap in the wall between columns 1 and 2
C20_Witness ==
  /\ Stepped
  /\ lastaction = 3
  /\ From = << 2, 2, 1, 3, 4 >>
  /\ To = << 2, 1, 1, 3, 3 >>
  /\ Cell(decode(P[s][2][1][2])) = << 2, 2 >>

====
